---------------------------- MODULE Spec2Model ----------------------------
(***************************************************************************)
(* StreamingHashedSparseFeatures<ST>: a streaming pipeline that pulls raw  *)
(* sparse examples from a parser (the producer), hashes each one into a    *)
(* fixed target dimension and exposes the hashed vector to dot products.   *)
(*                                                                         *)
(* Numeric values (ST entries, float32 results, float64 labels) are        *)
(* modelled as integers; floating point rounding is not modelled.          *)
(* A sparse vector is a sequence of records [feat_index, entry].           *)
(***************************************************************************)
EXTENDS Integers, Sequences, FiniteSets, TLC

VARIABLES
    dim,                \* int32_t dim
    use_quadratic,      \* bool use_quadratic
    keep_linear_terms,  \* bool keep_linear_terms
    has_labels,         \* bool has_labels
    seekable,           \* bool seekable
    working_file,       \* the examples held by the StreamingFile
    parser,             \* InputParser<SGSparseVectorEntry<ST>> parser
    current_vector,     \* SGSparseVector<ST> current_vector
    current_label,      \* float64_t current_label
    vec2,               \* the caller's dense array of the last dense call
    last,               \* the last call of the caller: op, arg, ret, err
    crashed,            \* the process trapped inside a call
    pending,            \* the consumer is inside get_next_example
    hist                \* observer: counts of calls, never read by the code;
                        \* nsucc: get_next_example calls that returned true,
                        \* starts: parser.start_parser calls since the last stop,
                        \* drained: calls that returned true since the last stop
                        \*          while the producer was not running
                        \* ctor: the arguments the constructor was handed

vars == <<dim, use_quadratic, keep_linear_terms, has_labels, seekable,
          working_file, parser, current_vector, current_label, vec2, last,
          crashed, pending, hist>>

config == <<dim, use_quadratic, keep_linear_terms, has_labels, seekable,
            working_file>>

-----------------------------------------------------------------------------
(* Bounds of the model *)

MaxExamples == 2    \* longest stream held by the producer
RingCap == 2        \* slots of the parser's example ring
MaxStarts == 2      \* parser.start_parser calls counted between two stops

-----------------------------------------------------------------------------
(* Inputs *)

Entry(i, v) == [feat_index |-> i, entry |-> v]

\* raw examples read from the file; raw indices exceed every target dim
RawExamples ==
    << [vec |-> <<Entry(3, 2), Entry(7, 5)>>, label |-> 1],
       [vec |-> <<Entry(4, -2), Entry(3, 2)>>, label |-> -1],
       [vec |-> <<>>, label |-> 1] >>

\* the streams a StreamingFile may hold: 0..MaxExamples examples
Streams ==
    { [k \in 1..n |-> RawExamples[((k - 1) % Len(RawExamples)) + 1]] :
        n \in 0..MaxExamples }

\* target dimensions a constructor may be handed (int32_t d)
Dims == {-1, 0, 2, 3}

\* values the never assigned member current_label may hold after construction
UninitializedLabels == {0, 9}

\* scale factors handed to add_to_dense_vec
Alphas == {-2, 1}

\* dense arrays a caller may hand to dense_dot and add_to_dense_vec of a
\* pipeline of target dimension d: of length d, and one slot off
DenseArrays(d) ==
    LET len == IF d < 0 THEN 0 ELSE d
    IN  { [n \in 1..len |-> n], [n \in 1..len |-> (n % 2) - n],
          [n \in 1..(len + 1) |-> n] }
        \cup (IF len > 0 THEN { [n \in 1..(len - 1) |-> n] } ELSE {})

\* the dense array of length d a caller builds from a sparse vector cv:
\* zeros, and at each index of cv the value cv holds there
Scatter(cv, d) ==
    LET len == IF d < 0 THEN 0 ELSE d
    IN  [n \in 1..len |->
            LET at == { i \in 1..Len(cv) : cv[i].feat_index = n - 1 }
            IN  IF at = {} THEN 0 ELSE cv[CHOOSE i \in at : TRUE].entry]

-----------------------------------------------------------------------------
(* Hash Transform: HashedSparseFeatures<ST>::hash_vector *)

\* stand-in for the 32-bit hash of a feature index (16 bits wide here)
Hash(i) == (i * 40503 + 12345) % 65536

RECURSIVE Xor(_, _)
Xor(a, b) ==
    IF a = 0 THEN b
    ELSE IF b = 0 THEN a
    ELSE (((a % 2) + (b % 2)) % 2) + 2 * Xor(a \div 2, b \div 2)

\* symmetric hash of an unordered pair of feature indices
HashPair(i, j) == IF i = j THEN Hash(i + i) ELSE Xor(Hash(i), Hash(j))

\* the linear terms of a raw vector, as [h, v] before reduction modulo dim
Linear(raw) ==
    [n \in 1..Len(raw) |-> [h |-> Hash(raw[n].feat_index), v |-> raw[n].entry]]

\* the unordered pairs (n, m), n <= m, of positions of a raw vector
Pairs(raw) == { p \in (1..Len(raw)) \X (1..Len(raw)) : p[1] <= p[2] }

RECURSIVE SetToSeq(_)
SetToSeq(S) ==
    IF S = {} THEN <<>>
    ELSE LET x == CHOOSE y \in S : TRUE IN <<x>> \o SetToSeq(S \ {x})

\* the quadratic terms: one per unordered pair, self pairs included
Quadratic(raw) ==
    LET ps == SetToSeq(Pairs(raw))
    IN  [n \in 1..Len(ps) |->
            [h |-> HashPair(raw[ps[n][1]].feat_index, raw[ps[n][2]].feat_index),
             v |-> raw[ps[n][1]].entry * raw[ps[n][2]].entry]]

Contributions(raw, use_quadr, keep_lin_terms) ==
    (IF (~use_quadr) \/ keep_lin_terms THEN Linear(raw) ELSE <<>>)
    \o (IF use_quadr THEN Quadratic(raw) ELSE <<>>)

\* sum of the values of the contributions that reduce to target index t
RECURSIVE SumAt(_, _, _)
SumAt(cs, d, t) ==
    IF cs = <<>> THEN 0
    ELSE (IF (Head(cs).h % d) = t THEN Head(cs).v ELSE 0) + SumAt(Tail(cs), d, t)

\* one entry per target index in t..d-1 that received a contribution
RECURSIVE Compact(_, _, _)
Compact(cs, d, t) ==
    IF t >= d THEN <<>>
    ELSE (IF \E n \in 1..Len(cs) : (cs[n].h % d) = t
          THEN << Entry(t, SumAt(cs, d, t)) >> ELSE <<>>)
         \o Compact(cs, d, t + 1)

\* hash_vector(vec, dim, use_quadratic, keep_linear_terms); no slot of
\* [0, d) exists when d <= 0, so nothing can be emitted there
hash_vector(raw, d, use_quadr, keep_lin_terms) ==
    IF d <= 0 THEN <<>>
    ELSE Compact(Contributions(raw, use_quadr, keep_lin_terms), d, 0)

-----------------------------------------------------------------------------
(* Vector algebra helpers *)

\* SGSparseVector<ST>::sparse_dot: sum over the indices present in both
RECURSIVE sparse_dot(_, _)
sparse_dot(a, b) ==
    IF a = <<>> THEN 0
    ELSE LET hits == { n \in 1..Len(b) : b[n].feat_index = Head(a).feat_index }
         IN  (IF hits = {} THEN 0
              ELSE Head(a).entry * b[CHOOSE n \in hits : TRUE].entry)
             + sparse_dot(Tail(a), b)

\* Math::abs
Abs(x) == IF x < 0 THEN -x ELSE x

-----------------------------------------------------------------------------
(* The parser: a producer thread filling a ring of parsed examples *)

parser_init ==
    [running |-> FALSE, read |-> 0, ring |-> <<>>, held |-> 0, done |-> FALSE]

parser_is_running(p) == p.running

parser_start_parser(p) == [p EXCEPT !.running = TRUE]

parser_end_parser(p) == [p EXCEPT !.running = FALSE]

parser_finalize_example(p) == [p EXCEPT !.held = IF @ > 0 THEN @ - 1 ELSE 0]

\* parser.get_next_example blocks while the producer runs, the ring is
\* empty and the end of the stream has not been signalled
parser_can_return(p) == (~p.running) \/ p.ring # <<>> \/ p.done

\* parser.get_next_example returns true: an example is handed over
parser_has_example(p) == p.running /\ p.ring # <<>>

parser_take(p) == [p EXCEPT !.ring = Tail(@), !.held = @ + 1]

\* producer thread: parse one more example of the file into a free slot
parse_example ==
    /\ ~crashed
    /\ parser.running
    /\ parser.read < Len(working_file)
    /\ Len(parser.ring) + parser.held < RingCap
    /\ parser' = [parser EXCEPT !.ring = Append(@, working_file[parser.read + 1]),
                                !.read = @ + 1]
    /\ UNCHANGED <<config, pending, current_vector, current_label, vec2, last, crashed, hist>>

\* producer thread: the file is exhausted, signal the end of the stream
parse_end ==
    /\ ~crashed
    /\ parser.running
    /\ parser.read = Len(working_file)
    /\ ~parser.done
    /\ parser' = [parser EXCEPT !.done = TRUE]
    /\ UNCHANGED <<config, pending, current_vector, current_label, vec2, last, crashed, hist>>

-----------------------------------------------------------------------------
(* Construction *)

Call(op, arg, ret, err) == [op |-> op, arg |-> arg, ret |-> ret, err |-> err]

\* the file's examples as its reader delivers them: get_sparse_vector reads
\* no label, get_sparse_vector_and_label reads one
set_read_functions(file, is_labelled) ==
    [k \in 1..Len(file) |->
        [vec |-> file[k].vec, label |-> IF is_labelled THEN file[k].label ELSE 0]]

\* init(file, is_labelled, size, d, use_quadr, keep_lin_terms), file != NULL
init(file, is_labelled, d, use_quadr, keep_lin_terms) ==
    [dim |-> d,
     use_quadratic |-> use_quadr,
     keep_linear_terms |-> keep_lin_terms,
     has_labels |-> is_labelled,
     working_file |-> set_read_functions(file, is_labelled),
     seekable |-> FALSE]

\* StreamingHashedSparseFeatures(file, is_labelled, size, d, use_quadr, keep_lin_terms)
ctor_file(file, is_labelled, d, use_quadr, keep_lin_terms) ==
    init(file, is_labelled, d, use_quadr, keep_lin_terms)

\* a plausible slip: the constructor without its closing seekable=true
ctor_features_not_seekable(dot_features, d, use_quadr, keep_lin_terms, lab_given) ==
    init(dot_features, lab_given, d, use_quadr, keep_lin_terms)

\* StreamingHashedSparseFeatures(dot_features, d, use_quadr, keep_lin_terms, lab)
\* lab_given stands for lab != NULL
ctor_features(dot_features, d, use_quadr, keep_lin_terms, lab_given) ==
    LET is_labelled == lab_given
    IN  [init(dot_features, is_labelled, d, use_quadr, keep_lin_terms)
            EXCEPT !.seekable = TRUE]

\* no constructor and no line of init assigns current_label: it holds an
\* indeterminate value until the first get_next_example that returns true
Init ==
    \E file \in Streams, d \in Dims, use_quadr \in BOOLEAN, keep_lin_terms \in BOOLEAN,
       is_labelled \in BOOLEAN, from_features \in BOOLEAN :
        LET this == IF from_features
                    THEN ctor_features(file, d, use_quadr, keep_lin_terms, is_labelled)
                    ELSE ctor_file(file, is_labelled, d, use_quadr, keep_lin_terms)
        IN  /\ dim = this.dim
            /\ use_quadratic = this.use_quadratic
            /\ keep_linear_terms = this.keep_linear_terms
            /\ has_labels = this.has_labels
            /\ seekable = this.seekable
            /\ working_file = this.working_file
            /\ parser = parser_init
            /\ current_vector = <<>>
            /\ current_label \in UninitializedLabels
            /\ vec2 = <<>>
            /\ last = Call("init", <<>>, 0, FALSE)
            /\ crashed = FALSE
            /\ pending = FALSE
            /\ hist = [starts |-> 0, nsucc |-> 0, drained |-> 0,
                       ctor |-> [d |-> d, use_quadr |-> use_quadr,
                                 keep_lin_terms |-> keep_lin_terms,
                                 from_features |-> from_features]]

-----------------------------------------------------------------------------
(* Queries *)

get_name == "StreamingHashedSparseFeatures"

get_feature_type == "F_UINT"

get_dim_feature_space == dim

\* a plausible slip: the number of entries of the current vector
get_num_features_of_vector == Len(current_vector)

get_num_features == dim

get_num_vectors == 1

get_label == current_label

get_vector == current_vector

-----------------------------------------------------------------------------
(* Lifecycle *)

\* a plausible slip: the producer is started without asking is_running
start_parser_unguarded ==
    /\ ~crashed
    /\ parser' = parser_start_parser(parser)
    /\ hist' = [hist EXCEPT !.starts = IF @ < MaxStarts THEN @ + 1 ELSE @,
                                    !.drained = 0]
    /\ last' = Call("start_parser", <<>>, 0, FALSE)
    /\ UNCHANGED <<config, pending, current_vector, current_label, vec2, crashed>>

start_parser ==
    /\ ~crashed
    /\ IF ~parser_is_running(parser)
       THEN /\ parser' = parser_start_parser(parser)
            /\ hist' = [hist EXCEPT !.starts = IF @ < MaxStarts THEN @ + 1 ELSE @,
                                    !.drained = 0]
       ELSE UNCHANGED <<parser, hist>>
    /\ last' = Call("start_parser", <<>>, 0, FALSE)
    /\ UNCHANGED <<config, pending, current_vector, current_label, vec2, crashed>>

\* a plausible slip: the body of start_parser pasted into end_parser, so
\* that a stop of a stopped producer starts it
end_parser_toggle ==
    /\ ~crashed
    /\ IF parser_is_running(parser)
       THEN /\ parser' = parser_end_parser(parser)
            /\ hist' = [hist EXCEPT !.starts = 0, !.drained = 0]
       ELSE /\ parser' = parser_start_parser(parser)
            /\ hist' = [hist EXCEPT !.starts = IF @ < MaxStarts THEN @ + 1 ELSE @,
                                    !.drained = 0]
    /\ last' = Call("end_parser", <<>>, 0, FALSE)
    /\ UNCHANGED <<config, pending, current_vector, current_label, vec2, crashed>>

end_parser ==
    /\ ~crashed
    /\ parser' = parser_end_parser(parser)
    /\ hist' = [hist EXCEPT !.starts = 0, !.drained = 0]
    /\ last' = Call("end_parser", <<>>, 0, FALSE)
    /\ UNCHANGED <<config, pending, current_vector, current_label, vec2, crashed>>

\* a plausible slip: the quadratic flags are not passed on
hashed_linear_only(tmp) == hash_vector(tmp, dim, FALSE, TRUE)

\* a plausible slip: the raw vector is stored without being hashed
hashed_not(tmp) == tmp

\* the value stored into current_vector for the raw vector tmp
hashed(tmp) == hash_vector(tmp, dim, use_quadratic, keep_linear_terms)

\* a plausible slip: the hash is stored whatever the parser returned
next_vector_unchecked(got, tmp) == hashed(tmp)

\* current_vector after the call: assigned only when the parser returned true
next_vector(got, tmp) == IF got THEN hashed(tmp) ELSE current_vector

\* a plausible slip: true is returned whatever the parser returned
returned_always_true(got) == TRUE

\* the value get_next_example returns, got being what the parser returned
returned(got) == got

get_next_example ==
    /\ ~crashed
    /\ parser_can_return(parser)
    /\ LET got == parser_has_example(parser)
           tmp == IF got THEN Head(parser.ring).vec ELSE <<>>
           cs  == Contributions(tmp, use_quadratic, keep_linear_terms)
       IN  /\ parser' = IF got THEN parser_take(parser) ELSE parser
           /\ current_label' = IF got THEN Head(parser.ring).label ELSE current_label
           /\ \/ /\ current_vector' = next_vector(got, tmp)
                 /\ last' = Call("get_next_example", <<>>, returned(got), FALSE)
                 /\ hist' = [hist EXCEPT
                                !.nsucc = IF returned(got) THEN @ + 1 ELSE @,
                                !.drained = IF returned(got) /\ ~parser.running /\ @ < 2
                                            THEN @ + 1 ELSE @]
                 /\ pending' = FALSE
                 /\ UNCHANGED crashed
              \* a reduction modulo a dim <= 0 is undefined: it may trap
              \/ /\ got
                 /\ dim <= 0
                 /\ cs # <<>>
                 /\ crashed' = TRUE
                 /\ UNCHANGED <<current_vector, last, hist, pending>>
    /\ UNCHANGED <<config, vec2>>

\* a plausible slip: the released example's hashed vector is dropped too
release_example_clears ==
    /\ ~crashed
    /\ parser' = parser_finalize_example(parser)
    /\ current_vector' = <<>>
    /\ last' = Call("release_example", <<>>, 0, FALSE)
    /\ UNCHANGED <<config, pending, current_label, vec2, crashed, hist>>

release_example ==
    /\ ~crashed
    /\ parser' = parser_finalize_example(parser)
    /\ last' = Call("release_example", <<>>, 0, FALSE)
    /\ UNCHANGED <<config, pending, current_vector, current_label, vec2, crashed, hist>>

-----------------------------------------------------------------------------
(* Vector algebra over current_vector *)

\* the other operands a caller may hand to dot: NULL, features of another
\* class, and pipelines of this class with their own dim and current vector
OtherFeatures ==
    { [null |-> TRUE, name |-> "", ftype |-> "", dim |-> 0, current_vector |-> <<>>],
      [null |-> FALSE, name |-> "StreamingSparseFeatures", ftype |-> "F_DREAL",
       dim |-> 8, current_vector |-> <<Entry(3, 2)>>],
      [null |-> FALSE, name |-> "StreamingHashedDenseFeatures", ftype |-> "F_UINT",
       dim |-> 2, current_vector |-> <<>>] }
    \cup
    { [null |-> FALSE, name |-> get_name, ftype |-> get_feature_type, dim |-> d,
       current_vector |-> hash_vector(RawExamples[1].vec, d, FALSE, TRUE)] :
        d \in {2, 3} }

dot(df) ==
    /\ ~crashed
    /\ IF df.null \/ df.ftype # get_feature_type \/ df.name # get_name
       THEN last' = Call("dot", df, 0, TRUE)
       ELSE last' = Call("dot", df, sparse_dot(current_vector, df.current_vector), FALSE)
    /\ UNCHANGED <<config, pending, parser, current_vector, current_label, vec2, crashed, hist>>

\* a plausible slip: = in place of += in the loop of dense_dot
RECURSIVE dense_dot_loop_assign(_, _, _)
dense_dot_loop_assign(v, i, result) ==
    IF i > Len(current_vector) THEN result
    ELSE dense_dot_loop_assign(v, i + 1,
            v[current_vector[i].feat_index + 1] * current_vector[i].entry)

\* the loop of dense_dot from entry i on, result being the sum so far
RECURSIVE dense_dot_loop(_, _, _)
dense_dot_loop(v, i, result) ==
    IF i > Len(current_vector) THEN result
    ELSE dense_dot_loop(v, i + 1,
            result + v[current_vector[i].feat_index + 1] * current_vector[i].entry)

dense_dot(v, vec2_len) ==
    /\ ~crashed
    /\ IF vec2_len # dim
       THEN last' = Call("dense_dot", [vec2 |-> v, vec2_len |-> vec2_len], 0, TRUE)
       ELSE last' = Call("dense_dot", [vec2 |-> v, vec2_len |-> vec2_len],
                         dense_dot_loop(v, 1, 0), FALSE)
    /\ vec2' = v
    /\ UNCHANGED <<config, pending, parser, current_vector, current_label, crashed, hist>>

\* a plausible slip: the slot is chosen by the loop counter, not by the
\* entry's feat_index
RECURSIVE add_to_dense_vec_loop_by_position(_, _, _)
add_to_dense_vec_loop_by_position(alpha, v, i) ==
    IF i > Len(current_vector) THEN v
    ELSE add_to_dense_vec_loop_by_position(alpha,
            [v EXCEPT ![i] = @ + alpha * current_vector[i].entry],
            i + 1)

\* the loop of add_to_dense_vec from entry i on, v being the array so far
RECURSIVE add_to_dense_vec_loop(_, _, _)
add_to_dense_vec_loop(alpha, v, i) ==
    IF i > Len(current_vector) THEN v
    ELSE add_to_dense_vec_loop(alpha,
            [v EXCEPT ![current_vector[i].feat_index + 1] =
                            @ + alpha * current_vector[i].entry],
            i + 1)

\* a plausible slip: the length is checked only after the loop has run
add_to_dense_vec_late_check(alpha, v, vec2_len, abs_val) ==
    /\ ~crashed
    /\ LET arg == [alpha |-> alpha, vec2 |-> v, vec2_len |-> vec2_len, abs_val |-> abs_val]
       IN  /\ last' = Call("add_to_dense_vec", arg, 0, vec2_len # dim)
           /\ vec2' = IF vec2_len < dim THEN v
                      ELSE add_to_dense_vec_loop(IF abs_val THEN Abs(alpha) ELSE alpha, v, 1)
    /\ UNCHANGED <<config, pending, parser, current_vector, current_label, crashed, hist>>

\* a plausible slip: abs_val is ignored and alpha keeps its sign
add_to_dense_vec_abs_ignored(alpha, v, vec2_len, abs_val) ==
    /\ ~crashed
    /\ LET arg == [alpha |-> alpha, vec2 |-> v, vec2_len |-> vec2_len, abs_val |-> abs_val]
       IN  IF vec2_len # dim
           THEN /\ last' = Call("add_to_dense_vec", arg, 0, TRUE)
                /\ vec2' = v
           ELSE /\ last' = Call("add_to_dense_vec", arg, 0, FALSE)
                /\ vec2' = add_to_dense_vec_loop(alpha, v, 1)
    /\ UNCHANGED <<config, pending, parser, current_vector, current_label, crashed, hist>>

add_to_dense_vec(alpha, v, vec2_len, abs_val) ==
    /\ ~crashed
    /\ LET arg == [alpha |-> alpha, vec2 |-> v, vec2_len |-> vec2_len, abs_val |-> abs_val]
       IN  IF vec2_len # dim
           THEN /\ last' = Call("add_to_dense_vec", arg, 0, TRUE)
                /\ vec2' = v
           ELSE /\ last' = Call("add_to_dense_vec", arg, 0, FALSE)
                /\ vec2' = add_to_dense_vec_loop(IF abs_val THEN Abs(alpha) ELSE alpha, v, 1)
    /\ UNCHANGED <<config, pending, parser, current_vector, current_label, crashed, hist>>

-----------------------------------------------------------------------------

Next ==
    \/ start_parser
    \/ end_parser
    \/ get_next_example
    \/ release_example
    \/ parse_example
    \/ parse_end
    \/ \E df \in OtherFeatures : dot(df)
    \/ \E v \in DenseArrays(dim) \cup {Scatter(current_vector, dim)} :
            dense_dot(v, Len(v))
    \/ \E alpha \in Alphas, v \in DenseArrays(dim), abs_val \in BOOLEAN :
            add_to_dense_vec(alpha, v, Len(v), abs_val)

Spec == Init /\ [][Next]_vars

-----------------------------------------------------------------------------
(* The blocking call seen from two contexts: the consumer sits inside       *)
(* get_next_example while the owning context calls start_parser and         *)
(* end_parser and the producer thread runs.  The algebra calls only read    *)
(* current_vector and are left out here.                                    *)

\* the consumer enters get_next_example and waits for the parser
get_next_example_enter ==
    /\ ~crashed
    /\ ~pending
    /\ pending' = TRUE
    /\ UNCHANGED <<config, parser, current_vector, current_label, vec2, last,
                   crashed, hist>>

\* the waiting call gets the parser's answer and returns
get_next_example_return == pending /\ get_next_example

\* the consumer, not inside get_next_example, releases the example
release_example_idle == ~pending /\ release_example

NextStop ==
    \/ start_parser
    \/ end_parser
    \/ get_next_example_enter
    \/ get_next_example_return
    \/ release_example_idle
    \/ parse_example
    \/ parse_end

\* pipelines constructed from a labelled file (the labels and seekable play
\* no part in stopping)
InitStop == Init /\ has_labels /\ ~seekable

\* a call that can return does return: the waiting consumer is woken
SpecStop == InitStop /\ [][NextStop]_vars /\ WF_vars(get_next_example_return)

-----------------------------------------------------------------------------
(* Properties *)

N == Len(working_file)

\* C1: against a producer holding exactly N examples, a get_next_example
\* that returns while the parser runs returns true as long as fewer than N
\* examples were delivered and false once all N were: N times true, then
\* false.
C1_TrueNTimesThenFalse ==
    (last.op = "get_next_example" /\ parser.running)
        => IF last.ret THEN hist.nsucc <= N ELSE hist.nsucc = N

C1_Witness ==
    /\ last.op = "get_next_example"
    /\ parser.running
    /\ ~last.ret
    /\ N = MaxExamples
    /\ hist.nsucc = N

\* C2: from the k-th successful get_next_example until the next one,
\* get_vector is the hash of the k-th raw example under the pipeline's dim,
\* use_quadratic and keep_linear_terms, and get_label is the label the
\* producer supplied with it.
C2_CurrentIsKthHash ==
    (~crashed /\ hist.nsucc >= 1)
        => /\ get_vector = hash_vector(working_file[hist.nsucc].vec, dim,
                                       use_quadratic, keep_linear_terms)
           /\ get_label = working_file[hist.nsucc].label

C2_Witness ==
    /\ hist.nsucc = 2
    /\ dim > 0
    /\ use_quadratic
    /\ has_labels
    /\ last.op = "release_example"
    /\ current_vector # <<>>

\* the step is a get_next_example that returned false (a repeated failing
\* call leaves the record of the last call as it was)
FailedAdvanceStep ==
    /\ last'.op = "get_next_example"
    /\ ~last'.ret
    /\ (last.op = "get_next_example" => last.ret)

\* C3: a get_next_example that returns false leaves current_vector exactly
\* as it was before the call.
C3_ExhaustionKeepsVector ==
    [][FailedAdvanceStep => current_vector' = current_vector]_vars

C3_Witness ==
    /\ last.op = "get_next_example"
    /\ ~last.ret
    /\ parser.running
    /\ parser.done
    /\ current_vector # <<>>

\* C4: in every reachable state every entry of current_vector has a
\* feature index in [0, dim).
C4_IndicesInRange ==
    \A n \in 1..Len(current_vector) :
        /\ current_vector[n].feat_index >= 0
        /\ current_vector[n].feat_index < dim

C4_Witness ==
    /\ Len(current_vector) >= 2
    /\ use_quadratic
    /\ last.op = "end_parser"

\* C5: a pipeline with dim <= 0 is rejected at construction, so no
\* get_next_example is ever called on a pipeline whose dim is <= 0.
C5_NoAdvanceOnNonPositiveDim ==
    last.op = "get_next_example" => dim > 0

\* C6: dense_dot and add_to_dense_vec called with vec2_len != dim fail and
\* leave every slot of the dense array as the caller passed it.
C6_MismatchFailsUnchanged ==
    (last.op \in {"dense_dot", "add_to_dense_vec"} /\ last.arg.vec2_len # dim)
        => (last.err /\ vec2 = last.arg.vec2)

C6_Witness ==
    /\ last.op = "add_to_dense_vec"
    /\ last.arg.vec2_len = dim + 1
    /\ last.err
    /\ current_vector # <<>>
    /\ vec2 = last.arg.vec2

\* the value current_vector holds at target index t (0 when absent), its
\* entries taken in absolute value when abs_val
RECURSIVE ValueAt(_, _, _)
ValueAt(cv, t, abs_val) ==
    IF cv = <<>> THEN 0
    ELSE (IF Head(cv).feat_index = t
          THEN (IF abs_val THEN Abs(Head(cv).entry) ELSE Head(cv).entry)
          ELSE 0)
         + ValueAt(Tail(cv), t, abs_val)

\* C7: add_to_dense_vec with vec2_len = dim adds alpha * value of each
\* entry to its slot, and alpha * abs(value) when abs_val is true.
C7_AddsAlphaTimesAbsValue ==
    (last.op = "add_to_dense_vec" /\ ~last.err)
        => vec2 = [n \in 1..Len(last.arg.vec2) |->
                     last.arg.vec2[n]
                     + last.arg.alpha * ValueAt(current_vector, n - 1, last.arg.abs_val)]

\* sum of f[t] for t in lo..hi
RECURSIVE SumOver(_, _, _)
SumOver(f, lo, hi) == IF lo > hi THEN 0 ELSE f[lo] + SumOver(f, lo + 1, hi)

\* C8: dense_dot with vec2_len = dim returns the sum over the entries
\* (idx, value) of current_vector of vec2[idx] * value, which is 0 for an
\* empty current_vector.
C8_DenseDotIsSum ==
    (last.op = "dense_dot" /\ ~last.err)
        => /\ last.ret = SumOver([t \in 0..(dim - 1) |->
                                    vec2[t + 1] * ValueAt(current_vector, t, FALSE)],
                                 0, dim - 1)
           /\ (current_vector = <<>> => last.ret = 0)

C8_Witness ==
    /\ last.op = "dense_dot"
    /\ ~last.err
    /\ Len(current_vector) >= 2
    /\ last.ret # 0

\* C9: dot with a pipeline of another target dimension is rejected with an
\* error rather than returning a number.
C9_DotRejectsOtherDim ==
    (last.op = "dot" /\ ~last.arg.null /\ last.arg.dim # dim) => last.err

\* the step is a start_parser call following a call of another kind
StartStep == last'.op = "start_parser" /\ last.op # "start_parser"

\* C10: start_parser starts a producer that is not running and changes
\* nothing when it is running, so the producer is never started twice
\* without a stop in between.
C10_StartIdempotent ==
    /\ [](hist.starts <= 1)
    /\ [][StartStep =>
            IF parser.running
            THEN parser' = parser /\ hist'.starts = hist.starts
            ELSE parser' = [parser EXCEPT !.running = TRUE] /\ hist'.starts = 1]_vars

C10_Witness ==
    /\ last.op = "start_parser"
    /\ parser.running
    /\ hist.starts = 1
    /\ hist.nsucc >= 1
    /\ parser.ring # <<>>

\* the step is an end_parser call following a call of another kind
StopStep == last'.op = "end_parser" /\ last.op # "end_parser"

\* the step changes the state although an end_parser call was the last call
\* before it and is the last call after it
StepAfterStop == last.op = "end_parser" /\ last'.op = "end_parser"

\* C11: end_parser leaves the producer stopped without failing, a second
\* end_parser with no start_parser in between changes nothing, and an
\* end_parser on a producer that is not running changes nothing.
C11_StopIdempotent ==
    /\ [](last.op = "end_parser" => (~parser.running /\ ~last.err))
    /\ [][StopStep =>
            /\ parser' = [parser EXCEPT !.running = FALSE]
            /\ current_vector' = current_vector
            /\ current_label' = current_label]_vars
    /\ [][StepAfterStop => UNCHANGED <<parser, current_vector, current_label>>]_vars

C11_Witness ==
    /\ last.op = "end_parser"
    /\ ~parser.running
    /\ hist.nsucc >= 1
    /\ parser.ring # <<>>

C13_OnlyAdvanceWrites ==
    [][(~crashed' /\ (current_vector' # current_vector \/ current_label' # current_label))
        => /\ last'.op = "get_next_example"
           /\ last'.ret
           /\ hist'.nsucc = hist.nsucc + 1]_vars

C13_Witness ==
    /\ last.op = "add_to_dense_vec"
    /\ ~last.err
    /\ hist.nsucc = 2
    /\ current_vector # <<>>
    /\ current_label = -1
    /\ parser.held = 0

\* C14: get_label on a pipeline that never received a labelled example (no
\* get_next_example returned true yet, or has_labels is false) returns 0.
C14_LabelDefaultsToZero ==
    (~crashed /\ (hist.nsucc = 0 \/ ~has_labels)) => get_label = 0

\* C15: dim, use_quadratic and keep_linear_terms keep the values the
\* constructor was handed under every sequence of calls, so get_num_features
\* and get_dim_feature_space return the construction-time dim in every state
\* and get_num_vectors returns 1.
C15_ConfigurationFixed ==
    /\ dim = hist.ctor.d
    /\ use_quadratic = hist.ctor.use_quadr
    /\ keep_linear_terms = hist.ctor.keep_lin_terms
    /\ get_num_features = hist.ctor.d
    /\ get_dim_feature_space = hist.ctor.d
    /\ get_num_vectors = 1

C15_Witness ==
    /\ last.op = "end_parser"
    /\ hist.nsucc = 2
    /\ hist.ctor.d = 3
    /\ hist.ctor.use_quadr
    /\ Len(current_vector) = 2

\* sum over the positions n..Len(raw) of the linear terms of raw that
\* reduce to target index t
RECURSIVE LinearSum(_, _, _)
LinearSum(raw, n, t) ==
    IF n > Len(raw) THEN 0
    ELSE (IF (Hash(raw[n].feat_index) % dim) = t THEN raw[n].entry ELSE 0)
         + LinearSum(raw, n + 1, t)

\* sum over the pairs (n, m), m..Len(raw), of the products that reduce to t
RECURSIVE PairSum(_, _, _, _)
PairSum(raw, n, m, t) ==
    IF m > Len(raw) THEN 0
    ELSE (IF (HashPair(raw[n].feat_index, raw[m].feat_index) % dim) = t
          THEN raw[n].entry * raw[m].entry ELSE 0)
         + PairSum(raw, n, m + 1, t)

\* sum over the unordered pairs (n', m), n <= n' <= m, self pairs included
RECURSIVE QuadraticSum(_, _, _)
QuadraticSum(raw, n, t) ==
    IF n > Len(raw) THEN 0
    ELSE PairSum(raw, n, n, t) + QuadraticSum(raw, n + 1, t)

\* the exact sum of everything the raw vector contributes to target index t
ExpectedAt(raw, t) ==
    (IF (~use_quadratic) \/ keep_linear_terms THEN LinearSum(raw, 1, t) ELSE 0)
    + (IF use_quadratic THEN QuadraticSum(raw, 1, t) ELSE 0)

\* C16: after every get_next_example that returned true, current_vector has
\* at most one entry per target index and each entry's value is the exact
\* sum of the linear and quadratic contributions of the raw example that
\* hash to its index.
C16_MergedExactly ==
    (~crashed /\ hist.nsucc >= 1)
        => /\ \A n, m \in 1..Len(current_vector) :
                current_vector[n].feat_index = current_vector[m].feat_index => n = m
           /\ \A n \in 1..Len(current_vector) :
                current_vector[n].entry =
                    ExpectedAt(working_file[hist.nsucc].vec, current_vector[n].feat_index)

\* a linear and a quadratic term, and two raw entries, share a target index
C16_Witness ==
    /\ last.op = "get_next_example"
    /\ last.ret
    /\ hist.nsucc = 1
    /\ dim = 2
    /\ use_quadratic
    /\ keep_linear_terms
    /\ \E n \in 1..Len(current_vector) :
            /\ current_vector[n].feat_index = 0
            /\ current_vector[n].entry # 0
            /\ LinearSum(working_file[1].vec, 1, 0) = 7
            /\ QuadraticSum(working_file[1].vec, 1, 0) # 0

\* C17: a pipeline constructed from an in-memory batch has seekable = true,
\* one constructed from an external source has seekable = false, and no
\* operation changes seekable afterwards.
C17_SeekableFixed ==
    seekable = hist.ctor.from_features

\* an in-memory pipeline that was started, advanced and stopped
C17_Witness ==
    /\ hist.ctor.from_features
    /\ seekable
    /\ last.op = "end_parser"
    /\ hist.nsucc >= 1
    /\ ~parser_is_running(parser)

\* C18: dense_dot applied to the dim-length array built by scattering
\* current_vector into zeros returns the sparse dot product of
\* current_vector with itself, and that self dot product is >= 0.
C18_ScatterDotIsSelfDot ==
    /\ sparse_dot(current_vector, current_vector) >= 0
    /\ (/\ last.op = "dense_dot"
        /\ ~last.err
        /\ last.arg.vec2 = Scatter(current_vector, dim))
            => last.ret = sparse_dot(current_vector, current_vector)

\* the scattered vector has two entries and a positive self dot product
C18_Witness ==
    /\ last.op = "dense_dot"
    /\ ~last.err
    /\ last.arg.vec2 = Scatter(current_vector, dim)
    /\ Len(current_vector) = 2
    /\ current_vector[1].entry # 0
    /\ current_vector[2].entry # 0
    /\ last.ret > 0

\* the slots of a dim-length array whose index occurs in current_vector
Touched == { current_vector[i].feat_index + 1 : i \in 1..Len(current_vector) }

\* C19: add_to_dense_vec with vec2_len = dim changes only the slots of vec2
\* whose index occurs in current_vector; every other slot keeps its value
\* and the length of the array is unchanged.
C19_OnlyTouchedSlotsChange ==
    (last.op = "add_to_dense_vec" /\ ~last.err)
        => /\ Len(vec2) = Len(last.arg.vec2)
           /\ Len(vec2) = last.arg.vec2_len
           /\ \A n \in 1..Len(vec2) :
                n \notin Touched => vec2[n] = last.arg.vec2[n]

\* a slot outside current_vector kept its value while another one changed
C19_Witness ==
    /\ last.op = "add_to_dense_vec"
    /\ ~last.err
    /\ dim = 3
    /\ \E n \in 1..Len(vec2) : n \notin Touched /\ vec2[n] = last.arg.vec2[n]
    /\ \E n \in 1..Len(vec2) : n \in Touched /\ vec2[n] # last.arg.vec2[n]

\* the array a call with abs_val = false and the scale factor scale leaves
\* behind, computed slot by slot from the signed values of current_vector
SignedResult(scale, v) ==
    [n \in 1..Len(v) |-> v[n] + scale * ValueAt(current_vector, n - 1, FALSE)]

\* C20: add_to_dense_vec with abs_val = true leaves exactly the array that
\* add_to_dense_vec with abs_val = false and the scale factor abs(alpha)
\* leaves; the entries of current_vector keep their sign.
C20_AbsValScalesByAbsAlpha ==
    (last.op = "add_to_dense_vec" /\ ~last.err)
        => vec2 = SignedResult(IF last.arg.abs_val THEN Abs(last.arg.alpha)
                               ELSE last.arg.alpha,
                               last.arg.vec2)

\* abs_val with a negative alpha and a negative entry: the slot went down
C20_Witness ==
    /\ last.op = "add_to_dense_vec"
    /\ ~last.err
    /\ last.arg.abs_val
    /\ last.arg.alpha < 0
    /\ \E i \in 1..Len(current_vector) :
            /\ current_vector[i].entry < 0
            /\ vec2[current_vector[i].feat_index + 1]
                    < last.arg.vec2[current_vector[i].feat_index + 1]

=============================================================================
